---- MODULE Spec2Model ----
(***************************************************************************)
(* Model of FredServer (src/fred_economic_server.py): the five tool        *)
(* handlers, the request helper they share, and the FRED API as an         *)
(* environment that answers every request with an arbitrary response.      *)
(* One tool call is in flight at a time; every `await self._make_request`  *)
(* is a step boundary: the step that reaches it issues the request, the    *)
(* next step of the call consumes the response.                            *)
(*                                                                         *)
(* Encodings.  A Python dict is a function on its key set.  A str built    *)
(* with an f-string is the sequence of its parts.  A tool result is a      *)
(* Text(parts) or the JsonDumps(value) of a dict.  Dates are day numbers   *)
(* (ISO dates compare as strings the way the days compare as numbers).     *)
(* None/null is Null.                                                      *)
(***************************************************************************)
EXTENDS Integers, Sequences, FiniteSets, TLC

\* ---------------------------------------------------------------- bounds
MaxObs == 2
MaxDate == 2
MaxIds == 2

\* ------------------------------------------------------ program constants
MaxLimit == 100000
DefaultLimit == 50
DefaultYears == 4
DaysPerYear == 365
DefaultSearchLimit == 10
StatusOK == 200
Now == 20760

\* ------------------------------------------------------------ Python bits
Null == << >>
EmptyDict == [k \in {} |-> k]

Get(d, k, default) == IF k \in DOMAIN d THEN d[k] ELSE default

\* `if d.get(k):` for a str-valued key: present and not the empty string
Truthy(d, k) == k \in DOMAIN d /\ d[k] # ""

Min(a, b) == IF a <= b THEN a ELSE b

Last(s) == s[Len(s)]

\* str.upper() on the ids the model uses
Upper(s) ==
  CASE s = "gdp" -> "GDP"
    [] s = "unrate" -> "UNRATE"
    [] s = "q" -> "Q"
    [] s = "m" -> "M"
    [] OTHER -> s

\* str(int) on the status codes the model uses
Str(n) ==
  CASE n = 200 -> "200"
    [] n = 500 -> "500"
    [] OTHER -> "?"

Text(parts) == [kind |-> "text", value |-> parts]
JsonDumps(v) == [kind |-> "json", value |-> v]

\* json.loads: every text the handlers return starts with "Error", which is
\* no JSON value, so decoding it raises JSONDecodeError at the first character
JsonLoads(s) ==
  IF s.kind = "json"
    THEN [ok |-> TRUE, value |-> s.value]
    ELSE [ok |-> FALSE, msg |-> <<"Expecting value: line 1 column 1 (char 0)">>]

\* ----------------------------------------------------------- environment
Sentinel == "."
Values == {Sentinel, "", "1.5"}
Dates == 1..MaxDate

Observation == [date : Dates, value : Values]

RECURSIVE SeqsUpTo(_, _)
SeqsUpTo(S, n) ==
  IF n = 0 THEN {<< >>}
  ELSE LET shorter == SeqsUpTo(S, n - 1)
       IN shorter \cup {Append(s, x) : s \in {t \in shorter : Len(t) = n - 1}, x \in S}

ObservationLists == SeqsUpTo(Observation, MaxObs)

SeriesInfo == [title |-> "Gross Domestic Product", units |-> "Billions", frequency |-> "Quarterly"]

\* what the transport can hand back: an exception (timeout), or a response
\* with a status code and, for status 200, a JSON payload
Raised == [raised |-> TRUE, status |-> 0, data |-> EmptyDict]
HttpError == [raised |-> FALSE, status |-> 500, data |-> EmptyDict]
Ok(d) == [raised |-> FALSE, status |-> StatusOK, data |-> d]
FredError == Ok("error_code" :> 400)

Failures == {Raised, HttpError, FredError}

ObservationsResponses ==
  Failures \cup {Ok(EmptyDict)} \cup {Ok("observations" :> s) : s \in ObservationLists}

\* the batch tools make many requests per call; their responses are drawn from
\* a fixed sample: no observation, a missing value, one value, two values in
\* either order, a missing value next to a value
Obs(d, v) == [date |-> d, value |-> v]

BatchObservationLists ==
  {<< >>, <<Obs(1, Sentinel)>>, <<Obs(1, "1.5")>>,
   <<Obs(2, "1.5"), Obs(1, "1.5")>>, <<Obs(1, "1.5"), Obs(2, "1.5")>>,
   <<Obs(2, Sentinel), Obs(1, "1.5")>>}

BatchObservationsResponses ==
  Failures \cup {Ok(EmptyDict)} \cup {Ok("observations" :> s) : s \in BatchObservationLists}

DashboardResponses ==
  Failures \cup {Ok(EmptyDict), Ok("observations" :> <<Obs(1, "1.5")>>)}

SearchHit(id) ==
  [id |-> id, title |-> "Gross Domestic Product", units |-> "Billions",
   frequency |-> "Quarterly", observation_start |-> 1, observation_end |-> 2,
   popularity |-> 90]

SearchResponses ==
  Failures \cup {Ok(EmptyDict), Ok("seriess" :> << >>), Ok("seriess" :> <<SearchHit("GDP")>>),
                 Ok("seriess" :> <<SearchHit("GDP"), SearchHit("GDPC1")>>)}

SeriesResponses ==
  Failures \cup {Ok(EmptyDict), Ok("seriess" :> << >>), Ok("seriess" :> <<SeriesInfo>>)}

\* ---------------------------------------------------------- _make_request
RequestFailed(inner) == [ok |-> FALSE, msg |-> <<"Request failed: ">> \o inner]

MakeRequest(resp) ==
  IF resp.raised THEN RequestFailed(<<"timed out">>)
  ELSE IF resp.status # StatusOK
    THEN RequestFailed(<<"API error: ", Str(resp.status), " - ", "Internal Server Error">>)
  ELSE IF "error_code" \in DOMAIN resp.data
    THEN RequestFailed(<<"FRED error: ", "Bad Request">>)
  ELSE [ok |-> TRUE, data |-> resp.data]

\* params.update({'api_key': ..., 'file_type': 'json'}) and the GET
Request(endpoint, params) ==
  [endpoint |-> endpoint,
   params |-> ("api_key" :> "KEY" @@ "file_type" :> "json") @@ params]

\* variant: a request is sent a second time
SendWithRetry(reqs, request) == Append(Append(reqs, request), request)

\* one `await client.get(url, params=params)`: one request goes out
Send(reqs, request) == Append(reqs, request)

\* -------------------------------------------------- shaping of the results
\* the comprehension `[obs for obs in observations if obs.get("value") and
\* obs.get("value") != "."]`
Valid(obs) == obs.value # "" /\ obs.value # Sentinel

\* variant: the filter tests the value's truth only and keeps "."
NonEmpty(obs) == obs.value # ""

ValidObservationsKeepSentinel(observations) == SelectSeq(observations, NonEmpty)

\* variant: the filter hands the kept observations back in reverse
RECURSIVE Reverse(_)
Reverse(s) == IF s = << >> THEN << >> ELSE Append(Reverse(Tail(s)), Head(s))

ValidObservationsReversed(observations) == Reverse(SelectSeq(observations, Valid))

ValidObservations(observations) == SelectSeq(observations, Valid)

\* list.sort(key=lambda x: x["date"]): stable, ascending
RECURSIVE Insert(_, _)
Insert(sorted, obs) ==
  IF sorted = << >> THEN <<obs>>
  ELSE IF Last(sorted).date <= obs.date THEN Append(sorted, obs)
  ELSE Append(Insert(SubSeq(sorted, 1, Len(sorted) - 1), obs), Last(sorted))

\* variant: the sort is left out
SortByDateMissing(s) == s

RECURSIVE SortByDate(_)
SortByDate(s) ==
  IF s = << >> THEN << >>
  ELSE Insert(SortByDate(SubSeq(s, 1, Len(s) - 1)), Last(s))

\* info.get("seriess", [{}])[0]; an empty list raises IndexError
SeriesInfoOf(info) ==
  LET seriess == Get(info, "seriess", <<EmptyDict>>)
  IN IF seriess = << >>
       THEN [ok |-> FALSE, msg |-> <<"list index out of range">>]
       ELSE [ok |-> TRUE, value |-> seriess[1]]

\* variant: the limit goes out as requested
ClampLimitMissing(args) == Get(args, "limit", DefaultLimit)

ClampLimit(args) == Min(Get(args, "limit", DefaultLimit), MaxLimit)

\* variant: date_range taken in calendar direction, start from the head
QueryResultHeadFirst(series_id, series_info, valid) ==
  [series_id |-> series_id,
   title |-> Get(series_info, "title", "Unknown"),
   units |-> Get(series_info, "units", ""),
   frequency |-> Get(series_info, "frequency", ""),
   total_observations |-> Len(valid),
   date_range |-> [start |-> IF valid # << >> THEN valid[1].date ELSE Null,
                   end |-> IF valid # << >> THEN Last(valid).date ELSE Null],
   latest_value |-> IF valid # << >> THEN valid[1] ELSE Null,
   all_data |-> valid]

QueryResult(series_id, series_info, valid) ==
  [series_id |-> series_id,
   title |-> Get(series_info, "title", "Unknown"),
   units |-> Get(series_info, "units", ""),
   frequency |-> Get(series_info, "frequency", ""),
   total_observations |-> Len(valid),
   date_range |-> [start |-> IF valid # << >> THEN Last(valid).date ELSE Null,
                   end |-> IF valid # << >> THEN valid[1].date ELSE Null],
   latest_value |-> IF valid # << >> THEN valid[1] ELSE Null,
   all_data |-> valid]

\* variant: the historical result built with the field names of QueryResult
HistoricalResultAsQuery(series_id, series_info, frequency, years, valid) ==
  [series_id |-> series_id,
   title |-> Get(series_info, "title", "Unknown"),
   units |-> Get(series_info, "units", ""),
   frequency |-> Upper(frequency),
   total_observations |-> Len(valid),
   date_range |-> [start |-> IF valid # << >> THEN valid[1].date ELSE Null,
                   end |-> IF valid # << >> THEN Last(valid).date ELSE Null],
   latest_value |-> IF valid # << >> THEN Last(valid) ELSE Null,
   historical_data |-> valid]

HistoricalResult(series_id, series_info, frequency, years, valid) ==
  [series_id |-> series_id,
   title |-> Get(series_info, "title", "Unknown"),
   units |-> Get(series_info, "units", ""),
   frequency |-> Upper(frequency),
   years_requested |-> years,
   total_points |-> Len(valid),
   date_range |-> [start |-> IF valid # << >> THEN valid[1].date ELSE Null,
                   end |-> IF valid # << >> THEN Last(valid).date ELSE Null],
   historical_data |-> valid]

\* ------------------------------------------------------------ arguments
OptField(k, S) == {EmptyDict} \cup {k :> v : v \in S}

LimitChoices == {-1, 1, DefaultLimit, MaxLimit, MaxLimit + 1, 999999}

SeriesIds == {"gdp", "unrate"}

\* get_fred_data: every limit without the optional filters, and every
\* combination of the optional filters with the default limit
DataArgs ==
  {a @@ b : a \in OptField("series_id", {"", "gdp"}), b \in OptField("limit", LimitChoices)}
    \cup
  {a @@ c @@ d @@ e @@ f :
     a \in OptField("series_id", {"", "gdp"}),
     c \in OptField("start_date", {"", "2020-01-01"}),
     d \in OptField("end_date", {"2024-12-31"}),
     e \in OptField("frequency", {"m"}),
     f \in OptField("aggregation_method", {"eop"})}

HistoricalArgs ==
  {a @@ b @@ c :
     a \in OptField("series_id", {"", "gdp"}),
     b \in OptField("years", {1}),
     c \in OptField("frequency", {"m"})}

SearchArgs ==
  {a @@ b : a \in OptField("query", {"", "gdp"}), b \in OptField("limit", {5})}

MultipleArgs ==
  {a @@ b @@ c :
     a \in OptField("series_ids", SeqsUpTo(SeriesIds \cup {""}, MaxIds)),
     b \in OptField("start_date", {"2020-01-01"}),
     c \in OptField("frequency", {"m"})}

\* ---------------------------------------------------------------- handlers
\* variant: the emptiness test is left out
NotStrMissing(s) == FALSE

\* `if not series_id:` / `if not query:` on a str
NotStr(s) == s = ""

\* `if not series_ids:` on a list
NotList(l) == Len(l) = 0

RequiredError(what) == Text(<<"Error: ", what, " ", "required">>)

SeriesIdOf(a) == Upper(Get(a, "series_id", ""))

Optional(a, k, param) == IF Truthy(a, k) THEN param :> a[k] ELSE EmptyDict

DataParams(a) ==
  Optional(a, "aggregation_method", "aggregation_method")
    @@ Optional(a, "frequency", "frequency")
    @@ Optional(a, "end_date", "observation_end")
    @@ Optional(a, "start_date", "observation_start")
    @@ ("series_id" :> SeriesIdOf(a) @@ "limit" :> ClampLimit(a) @@ "sort_order" :> "desc")

HistoricalLimit == 100000

\* strftime("%Y-%m-%d") on the days the model reaches (days since 1970-01-01)
FormatDate(day) ==
  CASE day = 20760 -> "2026-11-03"
    [] day = 20395 -> "2025-11-03"
    [] day = 19300 -> "2022-11-04"
    [] OTHER -> "0000-00-00"

HistoricalParams(a) ==
  "series_id" :> SeriesIdOf(a)
    @@ "observation_start" :> FormatDate(Now - Get(a, "years", DefaultYears) * DaysPerYear)
    @@ "observation_end" :> FormatDate(Now)
    @@ "frequency" :> Get(a, "frequency", "q")
    @@ "aggregation_method" :> "avg"
    @@ "limit" :> HistoricalLimit

IsHistorical(t) == t \in {"get_fred_historical", "get_multiple_series"}

ObservationsRequest(t, a) ==
  Request("series/observations", IF IsHistorical(t) THEN HistoricalParams(a) ELSE DataParams(a))

\* the except clauses of _get_fred_data and _get_fred_historical
FetchError(t, a, msg) ==
  Text((IF IsHistorical(t) THEN <<"Error getting historical ", SeriesIdOf(a), ": ">>
                           ELSE <<"Error getting ", SeriesIdOf(a), ": ">>) \o msg)

\* what _get_fred_data / _get_fred_historical return once the metadata
\* response `resp` is in, the observations being `obs`
FetchResult(t, a, obs, resp) ==
  LET info == MakeRequest(resp)
  IN IF ~info.ok THEN FetchError(t, a, info.msg)
     ELSE LET series_info == SeriesInfoOf(info.data)
          IN IF ~series_info.ok THEN FetchError(t, a, series_info.msg)
             ELSE IF IsHistorical(t)
               THEN JsonDumps(HistoricalResult(SeriesIdOf(a), series_info.value,
                                               Get(a, "frequency", "q"),
                                               Get(a, "years", DefaultYears),
                                               SortByDate(ValidObservations(obs))))
               ELSE JsonDumps(QueryResult(SeriesIdOf(a), series_info.value,
                                          ValidObservations(obs)))

\* _get_multiple_series: the body of one loop iteration
SeriesArgs(a, series_id) ==
  Optional(a, "start_date", "start_date")
    @@ ("series_id" :> series_id @@ "frequency" :> Get(a, "frequency", "q"))

MultiEntry(text) ==
  LET result_data == JsonLoads(text)
  IN IF result_data.ok THEN result_data.value ELSE [error |-> result_data.msg]

\* variant: a failed item ends the batch, dropping what was collected
RecordResultAbort(res, series_id, entry) ==
  IF "error" \in DOMAIN entry THEN series_id :> entry ELSE (series_id :> entry) @@ res

RecordResult(res, series_id, entry) == (series_id :> entry) @@ res

CombinedResult(a, res) ==
  [requested_series |-> a["series_ids"],
   frequency |-> Get(a, "frequency", "q"),
   start_date |-> Get(a, "start_date", Null),
   series_data |-> res]

\* the iterations from j on that finish without a request (an empty id)
RECURSIVE MultiLoop(_, _, _, _)
MultiLoop(a, j, res, text) ==
  IF j > Len(a["series_ids"]) THEN [i |-> j, results |-> res, result_str |-> text]
  ELSE LET series_id == a["series_ids"][j]
       IN IF NotStr(SeriesIdOf(SeriesArgs(a, series_id)))
            THEN MultiLoop(a, j + 1,
                           RecordResult(res, series_id, MultiEntry(RequiredError("series_id"))),
                           RequiredError("series_id"))
            ELSE [i |-> j, results |-> res, result_str |-> text]

\* _fred_dashboard; an entry's date is <<"date", day>>, or <<"N/A", 0>> for "N/A"
Indicators == <<"GDP", "UNRATE", "FEDFUNDS", "CPIAUCSL", "DGS10", "DTWEXBGS", "SP500">>

IndicatorName(series_id) ==
  CASE series_id = "GDP" -> "Gross Domestic Product"
    [] series_id = "UNRATE" -> "Unemployment Rate"
    [] series_id = "FEDFUNDS" -> "Fed Funds Rate"
    [] series_id = "CPIAUCSL" -> "Inflation (CPI)"
    [] series_id = "DGS10" -> "10-Year Treasury"
    [] series_id = "DTWEXBGS" -> "USD Index"
    [] series_id = "SP500" -> "S&P 500"

DashboardRequest(series_id) ==
  Request("series/observations", "series_id" :> series_id @@ "limit" :> 1 @@ "sort_order" :> "desc")

\* variant: a failed request is reported like an indicator without data
DashboardEntrySwallow(series_id, resp) ==
  LET data == MakeRequest(resp)
      obs == IF data.ok THEN Get(data.data, "observations", << >>) ELSE << >>
  IN IF obs # << >>
       THEN [name |-> IndicatorName(series_id), date |-> <<"date", obs[1].date>>, value |-> obs[1].value]
       ELSE [name |-> IndicatorName(series_id), date |-> <<"N/A", 0>>, value |-> "N/A"]

DashboardEntry(series_id, resp) ==
  LET data == MakeRequest(resp)
  IN IF ~data.ok THEN [name |-> IndicatorName(series_id), error |-> data.msg]
     ELSE LET obs == Get(data.data, "observations", << >>)
          IN IF obs # << >>
               THEN [name |-> IndicatorName(series_id),
                     date |-> <<"date", obs[1].date>>, value |-> obs[1].value]
               ELSE [name |-> IndicatorName(series_id), date |-> <<"N/A", 0>>, value |-> "N/A"]

\* _search_fred
SearchRequest(a) ==
  Request("series/search",
          "search_text" :> a["query"] @@ "limit" :> Get(a, "limit", DefaultSearchLimit)
            @@ "order_by" :> "popularity")

SearchResult(a, resp) ==
  LET data == MakeRequest(resp)
  IN IF ~data.ok THEN Text(<<"Search error: ">> \o data.msg)
     ELSE LET series == Get(data.data, "seriess", << >>)
              results == [j \in 1..Len(series) |->
                            [id |-> Get(series[j], "id", Null),
                             title |-> Get(series[j], "title", Null),
                             units |-> Get(series[j], "units", Null),
                             frequency |-> Get(series[j], "frequency", Null),
                             observation_start |-> Get(series[j], "observation_start", Null),
                             observation_end |-> Get(series[j], "observation_end", Null)]]
          IN JsonDumps([query |-> a["query"], found |-> Len(series), results |-> results])

\* -------------------------------------------------------------------- state
VARIABLES
  tool,          \* the tool call_tool is running, "none" before the first call
  args,          \* its arguments
  pc,            \* "idle", the request awaited, or "done"
  requests,      \* the requests _make_request has sent for this call, in order
  response,      \* what client.get handed back last
  observations,  \* _get_fred_data / _get_fred_historical: data["observations"]
  series_args,   \* _get_multiple_series: the arguments of the fetch in progress
  i,             \* the batch tools: 1-based position in the loop
  results,       \* the batch tools: the mapping under construction
  result_str,    \* _get_multiple_series: what the last fetch returned
  result         \* the text call_tool returns

vars == <<tool, args, pc, requests, response, observations, series_args, i, results, result_str, result>>

NoText == Text(<< >>)
NoResponse == [raised |-> FALSE, status |-> 0, data |-> EmptyDict]

Init ==
  /\ tool = "none"
  /\ args = EmptyDict
  /\ pc = "idle"
  /\ requests = << >>
  /\ response = NoResponse
  /\ observations = << >>
  /\ series_args = EmptyDict
  /\ i = 0
  /\ results = EmptyDict
  /\ result_str = NoText
  /\ result = NoText

\* call_tool dispatches a call; the handler starts with fresh locals
Enter(t, a) ==
  /\ pc = "idle"
  /\ tool' = t
  /\ args' = a
  /\ response' = NoResponse
  /\ observations' = << >>

Return(text) ==
  /\ result' = text
  /\ pc' = "done"

Await(what) ==
  /\ pc' = what
  /\ result' = NoText

NoBatch ==
  /\ series_args' = EmptyDict
  /\ i' = 0
  /\ results' = EmptyDict
  /\ result_str' = NoText

\* get_fred_data up to its first request
GetFredData(a) ==
  /\ Enter("get_fred_data", a)
  /\ NoBatch
  /\ IF NotStr(SeriesIdOf(a))
       THEN requests' = << >> /\ Return(RequiredError("series_id"))
       ELSE requests' = Send(<< >>, ObservationsRequest("get_fred_data", a)) /\ Await("observations")

\* get_fred_historical up to its first request
GetFredHistorical(a) ==
  /\ Enter("get_fred_historical", a)
  /\ NoBatch
  /\ IF NotStr(SeriesIdOf(a))
       THEN requests' = << >> /\ Return(RequiredError("series_id"))
       ELSE requests' = Send(<< >>, ObservationsRequest("get_fred_historical", a)) /\ Await("observations")

\* search_fred up to its request
SearchFred(a) ==
  /\ Enter("search_fred", a)
  /\ NoBatch
  /\ IF NotStr(Get(a, "query", ""))
       THEN requests' = << >> /\ Return(RequiredError("query"))
       ELSE requests' = Send(<< >>, SearchRequest(a)) /\ Await("search")

SearchResponse(resp) ==
  /\ pc = "search"
  /\ response' = resp
  /\ Return(SearchResult(args, resp))
  /\ UNCHANGED <<tool, args, requests, observations, series_args, i, results, result_str>>

\* _get_multiple_series from iteration j on, with `res` collected and `reqs`
\* sent so far: run to the next request, or to the end of the loop
MultiContinue(a, reqs, j, res, text) ==
  LET at == MultiLoop(a, j, res, text)
  IN /\ i' = at.i
     /\ results' = at.results
     /\ result_str' = at.result_str
     /\ IF at.i > Len(a["series_ids"])
          THEN /\ series_args' = series_args
               /\ requests' = reqs
               /\ Return(JsonDumps(CombinedResult(a, at.results)))
          ELSE /\ series_args' = SeriesArgs(a, a["series_ids"][at.i])
               /\ requests' = Send(reqs, ObservationsRequest("get_multiple_series", series_args'))
               /\ Await("observations")

\* get_multiple_series up to its first request
GetMultipleSeries(a) ==
  /\ Enter("get_multiple_series", a)
  /\ IF NotList(Get(a, "series_ids", << >>))
       THEN NoBatch /\ requests' = << >> /\ Return(RequiredError("series_ids"))
       ELSE MultiContinue(a, << >>, 1, EmptyDict, NoText)

\* the running fetch: the tool's own arguments, or the batch's series_args
FetchArgs == IF tool = "get_multiple_series" THEN series_args ELSE args

\* a fetch of the batch has returned `text`: store it and go on with the loop
MultiStore(text) ==
  MultiContinue(args, requests, i + 1,
                RecordResult(results, args["series_ids"][i], MultiEntry(text)), text)

\* the fetch has returned `text`
FetchReturn(text) ==
  IF tool = "get_multiple_series"
    THEN MultiStore(text)
    ELSE Return(text) /\ UNCHANGED <<requests, series_args, i, results, result_str>>

\* the observations request of a fetch is answered
ObservationsResponse(resp) ==
  /\ pc = "observations"
  /\ response' = resp
  /\ resp \in (IF tool = "get_multiple_series" THEN BatchObservationsResponses
                                                ELSE ObservationsResponses)
  /\ LET data == MakeRequest(resp)
     IN IF ~data.ok
          THEN FetchReturn(FetchError(tool, FetchArgs, data.msg)) /\ UNCHANGED observations
          ELSE /\ observations' = Get(data.data, "observations", << >>)
               /\ requests' = Send(requests, Request("series", "series_id" :> SeriesIdOf(FetchArgs)))
               /\ Await("series")
               /\ UNCHANGED <<series_args, i, results, result_str>>
  /\ UNCHANGED <<tool, args>>

\* the metadata request of a fetch is answered
SeriesResponse(resp) ==
  /\ pc = "series"
  /\ response' = resp
  /\ FetchReturn(FetchResult(tool, FetchArgs, observations, resp))
  /\ UNCHANGED <<tool, args, observations>>

\* fred_dashboard up to its first request
FredDashboard ==
  /\ Enter("fred_dashboard", EmptyDict)
  /\ series_args' = EmptyDict
  /\ result_str' = NoText
  /\ i' = 1
  /\ results' = EmptyDict
  /\ requests' = Send(<< >>, DashboardRequest(Indicators[1]))
  /\ Await("dashboard")

\* the request for indicator i is answered
DashboardResponse(resp) ==
  /\ pc = "dashboard"
  /\ response' = resp
  /\ i' = i + 1
  /\ results' = RecordResult(results, Indicators[i], DashboardEntry(Indicators[i], resp))
  /\ IF i' > Len(Indicators)
       THEN requests' = requests /\ Return(JsonDumps([dashboard |-> results']))
       ELSE requests' = Send(requests, DashboardRequest(Indicators[i'])) /\ Await("dashboard")
  /\ UNCHANGED <<tool, args, observations, series_args, result_str>>

\* call_tool hands the text to the client; nothing of the call is kept
CallToolReturn ==
  /\ pc = "done"
  /\ tool' = "none"
  /\ args' = EmptyDict
  /\ pc' = "idle"
  /\ requests' = << >>
  /\ response' = NoResponse
  /\ observations' = << >>
  /\ NoBatch
  /\ result' = NoText

Next ==
  \/ \E a \in DataArgs : GetFredData(a)
  \/ \E a \in HistoricalArgs : GetFredHistorical(a)
  \/ \E a \in SearchArgs : SearchFred(a)
  \/ \E a \in MultipleArgs : GetMultipleSeries(a)
  \/ FredDashboard
  \/ \E resp \in ObservationsResponses \cup BatchObservationsResponses : ObservationsResponse(resp)
  \/ \E resp \in SeriesResponses : SeriesResponse(resp)
  \/ \E resp \in SearchResponses : SearchResponse(resp)
  \/ \E resp \in DashboardResponses : DashboardResponse(resp)
  \/ CallToolReturn

Spec == Init /\ [][Next]_vars

\* the answer to an awaited request: client.get returns or raises within its
\* 30 s timeout, so an awaiting call is always resumed
Respond ==
  \/ \E resp \in ObservationsResponses \cup BatchObservationsResponses : ObservationsResponse(resp)
  \/ \E resp \in SeriesResponses : SeriesResponse(resp)
  \/ \E resp \in SearchResponses : SearchResponse(resp)
  \/ \E resp \in DashboardResponses : DashboardResponse(resp)

\* ------------------------------------------------------------ properties
Succeeded(t) == tool = t /\ pc = "done" /\ result.kind = "json"

SortedDescending(s) == \A j \in 1..(Len(s) - 1) : s[j].date >= s[j + 1].date
SortedAscending(s) == \A j \in 1..(Len(s) - 1) : s[j].date <= s[j + 1].date

NoSentinel(s) == \A j \in 1..Len(s) : s[j].value # Sentinel

Parts(text) == {text[j] : j \in 1..Len(text)}

RECURSIVE IsSubsequence(_, _)
IsSubsequence(s, t) ==
  IF s = << >> THEN TRUE
  ELSE IF t = << >> THEN FALSE
  ELSE IF Head(s) = Head(t) THEN IsSubsequence(Tail(s), Tail(t))
  ELSE IsSubsequence(s, Tail(t))

\* C1: no observation list a successful operation returns (all_data of
\* get_fred_data, historical_data of get_fred_historical and of every
\* successful entry of get_multiple_series) holds an element whose value is
\* the missing-data sentinel ".".
NoSentinelReturned ==
  /\ Succeeded("get_fred_data") => NoSentinel(result.value.all_data)
  /\ Succeeded("get_fred_historical") => NoSentinel(result.value.historical_data)
  /\ Succeeded("get_multiple_series") =>
       \A k \in DOMAIN result.value.series_data :
         "historical_data" \in DOMAIN result.value.series_data[k]
           => NoSentinel(result.value.series_data[k].historical_data)

\* C1 witness: get_fred_data has returned data from a response that held a
\* sentinel value next to a real one.
SentinelDropped ==
  /\ Succeeded("get_fred_data")
  /\ \E j \in 1..Len(observations) : observations[j].value = Sentinel
  /\ result.value.all_data # << >>

\* C2 as stated: all_data of every successful get_fred_data call is sorted
\* descending by date, whatever order the observations arrive in.
AllDataSortedDescending ==
  Succeeded("get_fred_data") => SortedDescending(result.value.all_data)

\* C2 amended: all_data keeps the order of the upstream observations (it is
\* the response with entries dropped), so it is sorted descending by date
\* whenever the response is.
AllDataKeepsSourceOrder ==
  Succeeded("get_fred_data") =>
    /\ IsSubsequence(result.value.all_data, observations)
    /\ SortedDescending(observations) => SortedDescending(result.value.all_data)

\* C2 witness: a response in descending order with two dates has been
\* returned as all_data.
DescendingSourceReturned ==
  /\ Succeeded("get_fred_data")
  /\ SortedDescending(observations)
  /\ Len(result.value.all_data) >= 2
  /\ result.value.all_data[1].date > result.value.all_data[2].date

\* C3: historical_data of every successful get_fred_historical call is sorted
\* ascending by date whatever order the observations arrive in, and
\* date_range.start is its first (oldest) date, date_range.end its last
\* (newest) date.
HistoricalSortedAscending ==
  Succeeded("get_fred_historical") =>
    LET data == result.value.historical_data
        range == result.value.date_range
    IN /\ SortedAscending(data)
       /\ data # << >> =>
            /\ range.start = data[1].date
            /\ range.end = Last(data).date
            /\ \A j \in 1..Len(data) : range.start <= data[j].date /\ data[j].date <= range.end

\* C3 witness: a response whose first two observations are valid and in
\* descending order has been returned by get_fred_historical.
DescendingSourceSorted ==
  /\ Succeeded("get_fred_historical")
  /\ Len(observations) >= 2
  /\ Valid(observations[1]) /\ Valid(observations[2])
  /\ observations[1].date > observations[2].date

\* the required argument of the running tool is absent or empty
ArgumentMissing ==
  \/ /\ tool \in {"get_fred_data", "get_fred_historical"}
     /\ ("series_id" \notin DOMAIN args \/ args["series_id"] = "")
  \/ /\ tool = "search_fred"
     /\ ("query" \notin DOMAIN args \/ args["query"] = "")
  \/ /\ tool = "get_multiple_series"
     /\ ("series_ids" \notin DOMAIN args \/ Len(args["series_ids"]) = 0)

\* C6: get_fred_data and get_fred_historical with an empty or absent
\* series_id, search_fred with an empty or absent query and
\* get_multiple_series with an empty or absent series_ids return an error
\* string containing "required" and issue no request at all.
MissingArgumentRejected ==
  ArgumentMissing =>
    /\ pc = "done"
    /\ result.kind = "text"
    /\ "required" \in Parts(result.value)
    /\ requests = << >>

\* C6 witness: get_fred_data was called with series_id "" and has returned.
EmptySeriesIdCalled ==
  /\ tool = "get_fred_data"
  /\ "series_id" \in DOMAIN args
  /\ args["series_id"] = ""
  /\ pc = "done"

\* C7: the limit parameter of the observations request get_fred_data issues is
\* min(requested limit, 100000), 50 when no limit is given, so it never
\* exceeds 100000.
LimitClamped ==
  (tool = "get_fred_data" /\ requests # << >>) =>
    LET sent == requests[1].params["limit"]
    IN /\ requests[1].endpoint = "series/observations"
       /\ sent <= 100000
       /\ "limit" \notin DOMAIN args => sent = 50
       /\ "limit" \in DOMAIN args =>
            sent = (IF args["limit"] <= 100000 THEN args["limit"] ELSE 100000)

\* C7 witness: get_fred_data was called with limit 999999 and has sent its
\* observations request.
LargeLimitRequested ==
  /\ tool = "get_fred_data"
  /\ "limit" \in DOMAIN args
  /\ args["limit"] = 999999
  /\ requests # << >>

\* C9 as stated: a successful get_fred_historical result has the field set of
\* a get_fred_data result with historical_data in place of all_data.
HistoricalHasQueryFields ==
  Succeeded("get_fred_historical") =>
    DOMAIN result.value =
      {"series_id", "title", "units", "frequency", "total_observations", "date_range",
       "latest_value", "historical_data"}

\* C9 amended: a successful get_fred_historical result has the fields
\* series_id, title, units, frequency, years_requested, total_points,
\* date_range and historical_data: against a get_fred_data result it has
\* historical_data for all_data and total_points for total_observations, adds
\* years_requested and has no latest_value.
HistoricalFieldSet ==
  /\ Succeeded("get_fred_historical") =>
       /\ DOMAIN result.value =
            {"series_id", "title", "units", "frequency", "years_requested", "total_points",
             "date_range", "historical_data"}
       /\ DOMAIN result.value.date_range = {"start", "end"}
       /\ result.value.total_points = Len(result.value.historical_data)
  /\ Succeeded("get_fred_data") =>
       /\ DOMAIN result.value =
            {"series_id", "title", "units", "frequency", "total_observations", "date_range",
             "latest_value", "all_data"}
       /\ DOMAIN result.value.date_range = {"start", "end"}

\* C9 witness: get_fred_historical has returned a result with data in it.
HistoricalReturned ==
  /\ Succeeded("get_fred_historical")
  /\ result.value.historical_data # << >>

\* C10: for every successful get_fred_data call date_range.start is the date
\* of the last element of all_data, date_range.end and latest_value come from
\* its first element, total_observations is its length (the number of
\* observations with a value), and all three are null when all_data is empty.
QueryResultSummary ==
  Succeeded("get_fred_data") =>
    LET r == result.value
        data == result.value.all_data
    IN /\ r.total_observations = Len(data)
       /\ r.total_observations = Cardinality({j \in 1..Len(observations) : Valid(observations[j])})
       /\ IF data = << >>
            THEN /\ r.date_range.start = Null
                 /\ r.date_range.end = Null
                 /\ r.latest_value = Null
            ELSE /\ r.date_range.start = Last(data).date
                 /\ r.date_range.end = data[1].date
                 /\ r.latest_value = data[1]

\* C10 witness: get_fred_data has returned all_data whose first and last
\* elements differ in date.
QueryResultWithRange ==
  /\ Succeeded("get_fred_data")
  /\ Len(result.value.all_data) >= 2
  /\ result.value.all_data[1].date # Last(result.value.all_data).date

IsErrorRecord(entry) == DOMAIN entry = {"error"}

IsHistoricalResult(entry, series_id) ==
  /\ DOMAIN entry =
       {"series_id", "title", "units", "frequency", "years_requested", "total_points",
        "date_range", "historical_data"}
  /\ entry.series_id = Upper(series_id)
  /\ entry.total_points = Len(entry.historical_data)
  /\ SortedAscending(entry.historical_data)

RequestedIds == {args["series_ids"][j] : j \in 1..Len(args["series_ids"])}

InBatch == tool = "get_multiple_series" /\ ~ArgumentMissing

\* the fetch for the id last stored failed: the id is empty, or the last
\* request was answered by an exception, a non-200 status, an error code or a
\* metadata payload with an empty series list
LastFetchFailed ==
  \/ args["series_ids"][i - 1] = ""
  \/ ~MakeRequest(response).ok
  \/ ~SeriesInfoOf(response.data).ok

\* C4, the mapping: the keys of series_data are the ids requested (those the
\* loop has passed, all of them at the end); the id stored last maps to an
\* {error} record if its fetch failed and to a HistoricalResult if not; every
\* entry is one or the other.
MultipleKeysAndEntries ==
  InBatch =>
    /\ DOMAIN results = {args["series_ids"][j] : j \in 1..(i - 1)}
    /\ pc = "done" =>
         /\ result.kind = "json"
         /\ result.value.series_data = results
         /\ DOMAIN result.value.series_data = RequestedIds
    /\ \A k \in DOMAIN results : IsErrorRecord(results[k]) \/ IsHistoricalResult(results[k], k)
    /\ (i > 1 /\ pc \in {"observations", "done"}) =>
         LET last == args["series_ids"][i - 1]
         IN IF LastFetchFailed THEN IsErrorRecord(results[last])
                               ELSE IsHistoricalResult(results[last], last)

\* C4, the isolation: a step of the batch changes the entries of the ids it
\* fetches and of no other id, whether the fetch fails or not.
MultipleIsolation ==
  (InBatch /\ tool' = tool) =>
    \A k \in DOMAIN results :
      k \notin {args["series_ids"][j] : j \in i..(i' - 1)}
        => k \in DOMAIN results' /\ results'[k] = results[k]

\* C4: for every non-empty list of ids and every pattern of failures the key
\* set of series_data equals the set of requested ids, a failed id maps to an
\* {error} record, a fetched id to a valid HistoricalResult, and the entry of
\* one id does not depend on the failure of another.
MultipleSeriesIsolated == []MultipleKeysAndEntries /\ [][MultipleIsolation]_vars

\* C4 witness: the batch <<"gdp", "unrate">> has returned with data for gdp
\* and an {error} record for unrate.
OneOfTwoFailed ==
  /\ tool = "get_multiple_series"
  /\ pc = "done"
  /\ ~ArgumentMissing
  /\ args["series_ids"] = <<"gdp", "unrate">>
  /\ IsHistoricalResult(results["gdp"], "gdp")
  /\ results["gdp"].historical_data # << >>
  /\ IsErrorRecord(results["unrate"])

\* C5, the mapping: the dashboard holds the indicators the loop has passed, all
\* 7 fixed keys at the end; the indicator stored last holds an error record if
\* its request failed and a {name, date, value} record if not.
DashboardKeysAndEntries ==
  tool = "fred_dashboard" =>
    /\ DOMAIN results = {Indicators[j] : j \in 1..(i - 1)}
    /\ pc = "done" =>
         /\ result.kind = "json"
         /\ DOMAIN result.value.dashboard =
              {"GDP", "UNRATE", "FEDFUNDS", "CPIAUCSL", "DGS10", "DTWEXBGS", "SP500"}
         /\ Cardinality(DOMAIN result.value.dashboard) = 7
    /\ i > 1 =>
         LET entry == results[Indicators[i - 1]]
         IN IF MakeRequest(response).ok
              THEN DOMAIN entry = {"name", "date", "value"}
              ELSE DOMAIN entry = {"name", "error"} /\ entry.error = MakeRequest(response).msg

\* C5, the isolation: the answer to one indicator's request leaves the entries
\* of the other indicators as they were.
DashboardIsolation ==
  (tool = "fred_dashboard" /\ tool' = tool) =>
    \A k \in DOMAIN results : k \in DOMAIN results' /\ results'[k] = results[k]

\* C5: for every pattern of upstream failures the result of fred_dashboard
\* holds exactly the 7 fixed indicator keys, an indicator whose request fails
\* holds an error record, and the other indicators' entries are unaffected.
DashboardComplete == []DashboardKeysAndEntries /\ [][DashboardIsolation]_vars

\* C5 witness: the dashboard has returned with the first and the last
\* indicator failed and the second one reported.
DashboardPartlyFailed ==
  /\ tool = "fred_dashboard"
  /\ pc = "done"
  /\ "error" \in DOMAIN results["GDP"]
  /\ "value" \in DOMAIN results["UNRATE"]
  /\ "error" \in DOMAIN results["SP500"]

\* C8: when the fetch of a series id fails in get_multiple_series, the error
\* record stored for that id carries that failure's descriptive message (the
\* text the failed fetch produced), so the cause reaches the caller.
ErrorCauseReturned ==
  (InBatch /\ i > 1 /\ result_str.kind = "text") =>
    LET entry == results[args["series_ids"][i - 1]]
    IN /\ IsErrorRecord(entry)
       /\ Parts(result_str.value) \subseteq Parts(entry.error)

\* the response is one _make_request returns data for
Answered(resp) ==
  ~resp.raised /\ resp.status = 200 /\ "error_code" \notin DOMAIN resp.data

\* the number of requests sent for series id `sid`
RequestsFor(sid) ==
  Cardinality({j \in 1..Len(requests) : requests[j].params["series_id"] = sid})

\* the number of places of the batch that ask for an id spelled `sid` in
\* upper case
PlacesFor(sid) ==
  Cardinality({j \in 1..Len(args["series_ids"]) : Upper(args["series_ids"][j]) = sid})

\* C11, the counts: get_fred_data and get_fred_historical send at most 2
\* requests, the observations request first and the metadata request second;
\* search_fred at most 1; fred_dashboard one per indicator, 7 when it returns;
\* get_multiple_series at most 2 per place of the list, alternating the same
\* way; a call that has returned has a result.
RequestsBounded ==
  /\ tool \in {"get_fred_data", "get_fred_historical"} =>
       /\ Len(requests) <= 2
       /\ Len(requests) >= 1 => requests[1].endpoint = "series/observations"
       /\ Len(requests) = 2 => requests[2].endpoint = "series" /\ pc \in {"series", "done"}
  /\ tool = "search_fred" =>
       /\ Len(requests) <= 1
       /\ Len(requests) = 1 => requests[1].endpoint = "series/search"
  /\ tool = "fred_dashboard" =>
       /\ Len(requests) = (IF pc = "done" THEN 7 ELSE i)
       /\ \A j \in 1..Len(requests) :
            /\ requests[j].endpoint = "series/observations"
            /\ requests[j].params["series_id"] = Indicators[j]
  /\ InBatch =>
       /\ Len(requests) <= 2 * Len(args["series_ids"])
       /\ \A k \in RequestedIds : RequestsFor(Upper(k)) <= 2 * PlacesFor(Upper(k))
       /\ \A j \in 1..Len(requests) :
            requests[j].endpoint = "series" =>
              /\ j > 1
              /\ requests[j - 1].endpoint = "series/observations"
              /\ requests[j - 1].params["series_id"] = requests[j].params["series_id"]
  /\ (tool = "get_multiple_series" /\ ArgumentMissing) => requests = << >>
  /\ pc = "done" => result # NoText

\* C11, the order: a metadata request goes out only in the step that takes a
\* successful answer to the observations request, and a step sends at most
\* one request.
MetadataAfterObservations ==
  /\ Len(requests') <= Len(requests) + 1
  /\ (Len(requests') = Len(requests) + 1 /\ Last(requests').endpoint = "series") =>
       pc = "observations" /\ Answered(response')
  /\ (pc = "observations" /\ ~Answered(response')) => pc' # "series"

Running == pc \notin {"idle", "done"}

\* the most requests the running call can still have answered
StepsLeft ==
  CASE pc = "search" -> 1
    [] pc = "dashboard" -> Len(Indicators) - i + 1
    [] pc = "observations" ->
         IF tool = "get_multiple_series" THEN 2 * (Len(args["series_ids"]) - i + 1) ELSE 2
    [] pc = "series" ->
         IF tool = "get_multiple_series" THEN 2 * (Len(args["series_ids"]) - i) + 1 ELSE 1
    [] OTHER -> 0

\* C11, the termination: a running call is never stuck (the request it awaits
\* can be answered), every step it takes consumes one answer and leaves fewer
\* to come, and with none left it has returned.
CallProgresses ==
  Running => /\ StepsLeft >= 1
             /\ ENABLED Respond

CallAdvances ==
  Running => /\ StepsLeft' < StepsLeft
             /\ StepsLeft' = 0 <=> pc' = "done"

\* C11: no request is retried: under every pattern of upstream failures a
\* get_fred_data or get_fred_historical call issues at most 2 requests
\* (observations, then metadata, the metadata request only after the
\* observations request succeeded), search_fred at most 1, fred_dashboard
\* exactly 7, get_multiple_series at most 2 per requested id; and every
\* operation then terminates with a result.
NoRetries ==
  /\ []RequestsBounded
  /\ []CallProgresses
  /\ [][MetadataAfterObservations /\ CallAdvances]_vars

\* C11 witness: the batch <<"gdp", "unrate">> has returned after 3 requests:
\* one fetch lost its observations request, the other made both requests.
BatchWithOneFailure ==
  /\ tool = "get_multiple_series"
  /\ pc = "done"
  /\ ~ArgumentMissing
  /\ args["series_ids"] = <<"gdp", "unrate">>
  /\ Len(requests) = 3

====
